---------------------------- MODULE Spec2Model ----------------------------
(***************************************************************************)
(* Model of the contextual-search core: the FAISS-backed vector store      *)
(* (vector_store.py), the rule-based intent extractors and the             *)
(* retrieval / filter / re-ranking pipeline (search.py), ingestion          *)
(* (ingest.py) and the event stream and its consumer (main.py,             *)
(* event_consumer.py).                                                     *)
(*                                                                         *)
(* Text is modelled as sequences of one-character strings, so that the     *)
(* regular expressions, str.lower() and SQL LIKE act on characters.        *)
(* Optional values (Python None) are records [some, v].                    *)
(***************************************************************************)
EXTENDS Integers, Sequences, FiniteSets, TLC

VARIABLES
    index,        \* the vectors of the FAISS index, in position order
    product_ids,  \* vector_store.product_ids
    store,        \* the rows of the products table
    result,       \* the outcome of the last call, as its caller sees it
    history,      \* history[p]: the add_embedding call whose vector is at position p
    th,           \* the threads inside add_embedding and search_embeddings
    redis,        \* the user_events stream and its consumer group
    consumer      \* the event consumer process: its position and its locals

vars == <<index, product_ids, store, result, history, th, redis, consumer>>

(***************************************************************************)
(* Python values                                                           *)
(***************************************************************************)
None == [some |-> FALSE, v |-> 0]

Some(x) == [some |-> TRUE, v |-> x]

\* the one element of a singleton: { e(x) : x \in {v} } names the value v
\* as x, computed once, as an assignment to a local variable does
The(S) == CHOOSE x \in S : TRUE

(***************************************************************************)
(* Characters and str.lower()                                              *)
(***************************************************************************)
UpperCase == <<"A","B","C","D","E","F","G","H","I","J","K","L","M",
               "N","O","P","Q","R","S","T","U","V","W","X","Y","Z">>

LowerCase == <<"a","b","c","d","e","f","g","h","i","j","k","l","m",
               "n","o","p","q","r","s","t","u","v","w","x","y","z">>

DigitChars == <<"0","1","2","3","4","5","6","7","8","9">>

Range(s) == {s[i] : i \in DOMAIN s}

IsDigit(c) == c \in Range(DigitChars)

IsSpace(c) == c = " "

IsWord(c) == c \in Range(UpperCase) \cup Range(LowerCase) \cup Range(DigitChars) \cup {"_"}

DigitVal(c) == (CHOOSE i \in 1..10 : DigitChars[i] = c) - 1

lower_char(c) ==
    IF c \in Range(UpperCase)
    THEN LowerCase[CHOOSE i \in 1..26 : UpperCase[i] = c]
    ELSE c

\* str.lower(): every cased character is replaced by its lower-case form.
lower(s) == [i \in 1..Len(s) |-> lower_char(s[i])]

\* s[i:] starts with lit (i is 1-based)
MatchLit(s, i, lit) ==
    /\ i >= 1
    /\ i + Len(lit) - 1 <= Len(s)
    /\ \A j \in 1..Len(lit) : s[i + j - 1] = lit[j]

\* Python's `sub in s` on strings
Contains(s, sub) == \E i \in 1..(Len(s) + 1) : MatchLit(s, i, sub)

\* greedy \d*, \s*, \w* from position i: the first position not in the class
RECURSIVE SkipDigits(_, _)
SkipDigits(s, i) ==
    IF i <= Len(s) /\ IsDigit(s[i]) THEN SkipDigits(s, i + 1) ELSE i

RECURSIVE SkipSpaces(_, _)
SkipSpaces(s, i) ==
    IF i <= Len(s) /\ IsSpace(s[i]) THEN SkipSpaces(s, i + 1) ELSE i

RECURSIVE SkipWord(_, _)
SkipWord(s, i) ==
    IF i <= Len(s) /\ IsWord(s[i]) THEN SkipWord(s, i + 1) ELSE i

\* the end (exclusive) of a match of \d+\.?\d*k? at i, or 0 when there is none
NumTokenEnd(s, i) ==
    LET e1 == SkipDigits(s, i)
        e2 == IF e1 <= Len(s) /\ s[e1] = "." THEN e1 + 1 ELSE e1
        e3 == SkipDigits(s, e2)
        e4 == IF e3 <= Len(s) /\ s[e3] = "k" THEN e3 + 1 ELSE e3
    IN  IF e1 = i THEN 0 ELSE e4

\* the end (exclusive) of the literal of lits matching at i, or 0
AltEnd(s, i, lits) ==
    IF \E l \in lits : MatchLit(s, i, l)
    THEN i + Len(CHOOSE l \in lits : MatchLit(s, i, l))
    ELSE 0

(***************************************************************************)
(* Numbers: int(str), and float(str) * 1000 in IEEE-754 binary64.          *)
(* A double is m * 2^(-s) with 2^52 <= m <= 2^53; m does not fit a machine *)
(* integer of the checker, so naturals are little-endian sequences of      *)
(* limbs in base LimbBase.                                                 *)
(***************************************************************************)
LimbBase == 16384

LimbBits == 14

MantissaBits == 53

ShiftChunk == 10

RECURSIVE IntBitLen(_)
IntBitLen(n) == IF n = 0 THEN 0 ELSE 1 + IntBitLen(n \div 2)

RECURSIVE Pow(_, _)
Pow(b, e) == IF e = 0 THEN 1 ELSE b * Pow(b, e - 1)

RECURSIVE BigFromInt(_)
BigFromInt(n) ==
    IF n = 0 THEN <<>> ELSE <<n % LimbBase>> \o BigFromInt(n \div LimbBase)

RECURSIVE BigToInt(_)
BigToInt(x) ==
    IF x = <<>> THEN 0 ELSE x[1] + LimbBase * BigToInt(Tail(x))

BigBitLen(x) ==
    IF x = <<>> THEN 0 ELSE (Len(x) - 1) * LimbBits + IntBitLen(x[Len(x)])

\* x * c + carry, for a small c
RECURSIVE BigMulAdd(_, _, _)
BigMulAdd(x, c, carry) ==
    IF x = <<>>
    THEN BigFromInt(carry)
    ELSE LET t == x[1] * c + carry
         IN  <<t % LimbBase>> \o BigMulAdd(Tail(x), c, t \div LimbBase)

BigTrim(x) ==
    IF \A i \in 1..Len(x) : x[i] = 0
    THEN <<>>
    ELSE SubSeq(x, 1, CHOOSE k \in 1..Len(x) :
                         x[k] # 0 /\ \A i \in (k + 1)..Len(x) : x[i] = 0)

\* divmod(x, d) for a small d: long division from the most significant limb
RECURSIVE BigDivRem(_, _, _)
BigDivRem(x, d, n) ==
    IF n = 0
    THEN [q |-> <<>>, r |-> 0]
    ELSE LET hi == BigDivRem(Tail(x), d, n - 1)
             t  == hi.r * LimbBase + x[1]
         IN  [q |-> <<t \div d>> \o hi.q, r |-> t % d]

BigDivSmall(x, d) ==
    LET res == BigDivRem(x, d, Len(x)) IN [q |-> BigTrim(res.q), r |-> res.r]

\* x / 10^nd as quotient q and the remainder's position against one half:
\* cmp = -1 (below half), 0 (exactly half), 1 (above half); exact iff zero
RECURSIVE BigDivPow10(_, _)
BigDivPow10(x, nd) ==
    IF nd = 0
    THEN [q |-> x, cmp |-> -1, zero |-> TRUE]
    ELSE LET lo == BigDivPow10(x, nd - 1)
             d  == BigDivSmall(lo.q, 10)
         IN  [q    |-> d.q,
              cmp  |-> IF d.r > 5 THEN 1
                       ELSE IF d.r < 5 THEN -1
                       ELSE IF lo.zero THEN 0 ELSE 1,
              zero |-> lo.zero /\ d.r = 0]

\* round half to even of a quotient with its remainder's position
RoundHalfEven(q, cmp) ==
    IF cmp = 1 \/ (cmp = 0 /\ q # <<>> /\ q[1] % 2 = 1)
    THEN BigMulAdd(q, 1, 1)
    ELSE q

\* x * 2^n and floor(x / 2^n), at most ShiftChunk bits at a time
RECURSIVE BigShiftLeft(_, _)
BigShiftLeft(x, n) ==
    IF n = 0 THEN x
    ELSE LET k == IF n < ShiftChunk THEN n ELSE ShiftChunk
             y == BigMulAdd(x, Pow(2, k), 0)
         IN  BigShiftLeft(y, n - k)

RECURSIVE BigShiftRight(_, _)
BigShiftRight(x, n) ==
    IF n = 0 THEN x
    ELSE LET k == IF n < ShiftChunk THEN n ELSE ShiftChunk
             y == BigDivSmall(x, Pow(2, k)).q
         IN  BigShiftRight(y, n - k)

\* float(N / 10^nd), N > 0: the correctly rounded double [m, s] = m * 2^(-s),
\* s the least exponent that gives the quotient N * 2^s / 10^nd 53 bits
RECURSIVE FloatOfDecimal(_, _, _)
FloatOfDecimal(n, nd, s) ==
    LET d == BigDivPow10(BigShiftLeft(BigFromInt(n), s), nd)
    IN  IF BigBitLen(d.q) >= MantissaBits
        THEN [m |-> RoundHalfEven(d.q, d.cmp), s |-> s]
        ELSE FloatOfDecimal(n, nd, s + 1)

\* a lower estimate of that exponent: N / 10^nd < 2^IntBitLen(N)
FloatExponentFrom(n) ==
    IF MantissaBits - 1 - IntBitLen(n) > 0
    THEN MantissaBits - 1 - IntBitLen(n) ELSE 0

\* int(f * c) for the double f = [m, s] and a small integer c: the product is
\* rounded to a double (half to even), then truncated towards zero
FloatMulInt(f, c) ==
    LET p   == BigMulAdd(f.m, c, 0)
        j   == BigBitLen(p) - MantissaBits
        d   == BigDivSmall(p, Pow(2, j))
        half == Pow(2, j - 1)
        m2  == IF j <= 0 THEN p
               ELSE RoundHalfEven(d.q, IF d.r > half THEN 1
                                       ELSE IF d.r = half THEN 0 ELSE -1)
        sh  == f.s - (IF j <= 0 THEN 0 ELSE j)
    IN  IF sh >= 0
        THEN BigToInt(BigShiftRight(m2, sh))
        ELSE BigToInt(m2) * Pow(2, 0 - sh)

\* the value of a string of decimal digits
RECURSIVE DecValue(_)
DecValue(s) ==
    IF s = <<>> THEN 0
    ELSE DecValue(SubSeq(s, 1, Len(s) - 1)) * 10 + DigitVal(s[Len(s)])

IsDigits(s) == s # <<>> /\ \A i \in 1..Len(s) : IsDigit(s[i])

\* int(token): a string of decimal digits, anything else raises ValueError
py_int(token) ==
    IF IsDigits(token)
    THEN [raised |-> FALSE, value |-> DecValue(token)]
    ELSE [raised |-> TRUE, value |-> 0]

\* int(float(t) * 1000) for t = digits [ "." digits ]
py_float_times_1000(t) ==
    LET dot  == IF \E i \in 1..Len(t) : t[i] = "."
                THEN CHOOSE i \in 1..Len(t) : t[i] = "." ELSE Len(t) + 1
        ip   == SubSeq(t, 1, dot - 1)
        fp   == SubSeq(t, dot + 1, Len(t))
        n    == DecValue(ip \o fp)
    IN  IF ~(IsDigits(ip) /\ \A i \in 1..Len(fp) : IsDigit(fp[i]))
        THEN [raised |-> TRUE, value |-> 0]
        ELSE IF n = 0
        THEN [raised |-> FALSE, value |-> 0]
        ELSE [raised |-> FALSE,
              value  |-> FloatMulInt(FloatOfDecimal(n, Len(fp), FloatExponentFrom(n)), 1000)]

normalize_number(token0) ==
    LET token == lower(token0)
    IN  IF token # <<>> /\ token[Len(token)] = "k"
        THEN py_float_times_1000(SubSeq(token, 1, Len(token) - 1))
        ELSE py_int(token)

(***************************************************************************)
(* Intent extractors (search.py).  re.search is the match at the leftmost  *)
(* start position; in these patterns every quantifier is followed by a     *)
(* character of a disjoint class, so the greedy scan is the only match.    *)
(***************************************************************************)
NoMatch == [ok |-> FALSE, g1 |-> <<>>, g2 |-> <<>>]

\* re.search(pattern, s), the pattern given by its match At(s, i) at position i
ReSearch(s, At(_, _)) ==
    LET starts == {i \in 1..Len(s) : At(s, i).ok}
    IN  IF starts # {}
        THEN At(s, CHOOSE i \in starts : \A j \in starts : i <= j)
        ELSE NoMatch

W_between == <<"b","e","t","w","e","e","n">>

W_and == <<"a","n","d">>

KwUnder == {<<"u","n","d","e","r">>, <<"b","e","l","o","w">>, <<"l","e","s","s"," ","t","h","a","n">>}

KwAbove == {<<"a","b","o","v","e">>, <<"o","v","e","r">>, <<"m","o","r","e"," ","t","h","a","n">>}

KwRating == {<<"s","t","a","r">>, <<"r","a","t","i","n","g">>}

W_size == <<"s","i","z","e">>

colors == <<<<"b","l","a","c","k">>, <<"w","h","i","t","e">>, <<"b","l","u","e">>, <<"r","e","d">>, <<"g","r","e","y">>>>

\* between\s+(\d+\.?\d*k?)\s+and\s+(\d+\.?\d*k?)
BetweenAt(s, i) ==
    LET a  == i + Len(W_between)
        b  == SkipSpaces(s, a)
        e1 == NumTokenEnd(s, b)
        c  == SkipSpaces(s, e1)
        d  == c + Len(W_and)
        f  == SkipSpaces(s, d)
        e2 == NumTokenEnd(s, f)
    IN  IF /\ MatchLit(s, i, W_between)
           /\ b > a
           /\ e1 # 0
           /\ c > e1
           /\ MatchLit(s, c, W_and)
           /\ f > d
           /\ e2 # 0
        THEN [ok |-> TRUE, g1 |-> SubSeq(s, b, e1 - 1), g2 |-> SubSeq(s, f, e2 - 1)]
        ELSE NoMatch

\* (kw1|kw2|...)\s+(\d+\.?\d*k?) ; g2 is the numeric token
KeywordNumberAt(s, i, kws) ==
    LET a == AltEnd(s, i, kws)
        b == SkipSpaces(s, a)
        e == NumTokenEnd(s, b)
    IN  IF a # 0 /\ b > a /\ e # 0
        THEN [ok |-> TRUE, g1 |-> SubSeq(s, i, a - 1), g2 |-> SubSeq(s, b, e - 1)]
        ELSE NoMatch

UnderAt(s, i) == KeywordNumberAt(s, i, KwUnder)

AboveAt(s, i) == KeywordNumberAt(s, i, KwAbove)

\* the pair returned by extract_price_range, or the ValueError of
\* normalize_number propagating out of it
PricePair(lo, hi) ==
    IF (lo.some /\ lo.v.raised) \/ (hi.some /\ hi.v.raised)
    THEN [raised |-> TRUE, min |-> None, max |-> None]
    ELSE [raised |-> FALSE,
          min |-> IF lo.some THEN Some(lo.v.value) ELSE None,
          max |-> IF hi.some THEN Some(hi.v.value) ELSE None]

extract_price_range(query) ==
    LET q  == lower(query)
        m1 == ReSearch(q, BetweenAt)
        m2 == ReSearch(q, UnderAt)
        m3 == ReSearch(q, AboveAt)
    IN  IF m1.ok
        THEN PricePair(Some(normalize_number(m1.g1)), Some(normalize_number(m1.g2)))
        ELSE IF m2.ok
        THEN PricePair(None, Some(normalize_number(m2.g2)))
        ELSE IF m3.ok
        THEN PricePair(Some(normalize_number(m3.g2)), None)
        ELSE PricePair(None, None)

\* size\s*(\w+)
SizeAt(s, i) ==
    LET a == i + Len(W_size)
        b == SkipSpaces(s, a)
        e == SkipWord(s, b)
    IN  IF MatchLit(s, i, W_size) /\ e > b
        THEN [ok |-> TRUE, g1 |-> SubSeq(s, b, e - 1), g2 |-> <<>>]
        ELSE NoMatch

extract_size(query) ==
    LET m == ReSearch(lower(query), SizeAt)
    IN  IF m.ok THEN Some(m.g1) ELSE None

extract_color(query) ==
    IF \E k \in 1..Len(colors) : Contains(lower(query), colors[k])
    THEN Some(colors[CHOOSE k \in 1..Len(colors) :
                        /\ Contains(lower(query), colors[k])
                        /\ \A j \in 1..(k - 1) : ~Contains(lower(query), colors[j])])
    ELSE None

\* (\d(\.\d)?)\s*(star|rating) at i; g1 is the number
RatingNumberAt(s, i) ==
    LET hasFrac == /\ i + 2 <= Len(s)
                   /\ s[i + 1] = "."
                   /\ IsDigit(s[i + 2])
        e == IF hasFrac THEN i + 3 ELSE i + 1
        b == SkipSpaces(s, e)
    IN  IF i >= 1 /\ i <= Len(s) /\ IsDigit(s[i]) /\ AltEnd(s, b, KwRating) # 0
        THEN [ok |-> TRUE, g1 |-> SubSeq(s, i, e - 1), g2 |-> <<>>]
        ELSE NoMatch

\* (above|over|more than)\s+(\d(\.\d)?)\s*(star|rating)
RatingAboveAt(s, i) ==
    LET a == AltEnd(s, i, KwAbove)
        b == SkipSpaces(s, a)
    IN  IF a # 0 /\ b > a THEN RatingNumberAt(s, b) ELSE NoMatch

\* float("d") or float("d.d"), in tenths (exact in that unit)
RatingTenths(tok) ==
    10 * DigitVal(tok[1]) + (IF Len(tok) = 3 THEN DigitVal(tok[3]) ELSE 0)

extract_rating(query) ==
    LET q  == lower(query)
        m1 == ReSearch(q, RatingAboveAt)
        m2 == ReSearch(q, RatingNumberAt)
    IN  IF m1.ok THEN Some(RatingTenths(m1.g1))
        ELSE IF m2.ok THEN Some(RatingTenths(m2.g1))
        ELSE None

(***************************************************************************)
(* Vector store (vector_store.py): a flat L2 index and the list mapping    *)
(* index position -> product_id.  Embeddings are integer vectors of        *)
(* EMBEDDING_DIM coordinates.  FAISS positions are 0-based, -1 is the      *)
(* label of a missing neighbour; Python lists accept negative indexes.     *)
(***************************************************************************)
EMBEDDING_DIM == 2

\* the distance FAISS reports for a missing neighbour (float32 maximum)
FLT_MAX == 2147483647

RECURSIVE SumSqDiff(_, _, _)
SumSqDiff(a, b, n) ==
    IF n = 0 THEN 0
    ELSE SumSqDiff(a, b, n - 1) + (a[n] - b[n]) * (a[n] - b[n])

\* squared L2 distance
L2(a, b) == SumSqDiff(a, b, Len(a))

\* index.add(vector): the wrapper asserts the dimension before inserting
faiss_add(idx, vector) ==
    IF Len(vector) # EMBEDDING_DIM
    THEN [raised |-> TRUE, index |-> idx]
    ELSE [raised |-> FALSE, index |-> Append(idx, vector)]

\* index.search(vector, k): the k nearest positions by ascending distance
\* (equal distances by position), padded with label -1 and FLT_MAX when the
\* index holds fewer than k vectors; asserts the dimension and k > 0
faiss_search(idx, vector, k) ==
    LET n       == Len(idx)
        d(p)    == L2(vector, idx[p + 1])
        rank(p) == Cardinality({o \in 0..(n - 1) :
                                   d(o) < d(p) \/ (d(o) = d(p) /\ o < p)})
        at(r)   == CHOOSE p \in 0..(n - 1) : rank(p) = r - 1
    IN  IF Len(vector) # EMBEDDING_DIM \/ k <= 0
        THEN [raised |-> TRUE, hits |-> <<>>]
        ELSE [raised |-> FALSE,
              hits   |-> [r \in 1..k |->
                            IF r <= n
                            THEN [idx |-> at(r), dist |-> d(at(r))]
                            ELSE [idx |-> -1, dist |-> FLT_MAX]]]

\* list[i] of Python, i >= -len(list)
PyIndex(list, i) == IF i >= 0 THEN list[i + 1] ELSE list[Len(list) + i + 1]

\* the successive states of `results` in the loop of search_embeddings
RECURSIVE CollectHits(_, _, _)
CollectHits(hits, pids, n) ==
    IF n = 0 THEN <<>>
    ELSE LET rest == CollectHits(hits, pids, n - 1)
         IN  IF hits[n].idx < Len(pids)
             THEN Append(rest, [product_id |-> PyIndex(pids, hits[n].idx),
                                dist       |-> hits[n].dist])
             ELSE rest

\* add_embedding with the id recorded before the index accepts the vector
add_embedding_records_first(product_id, embedding) ==
    LET a == faiss_add(index, embedding)
    IN  [raised |-> a.raised, index |-> a.index,
         product_ids |-> Append(product_ids, product_id)]

add_embedding(product_id, embedding) ==
    LET a == faiss_add(index, embedding)
    IN  IF a.raised
        THEN [raised |-> TRUE, index |-> index, product_ids |-> product_ids]
        ELSE [raised |-> FALSE, index |-> a.index,
              product_ids |-> Append(product_ids, product_id)]

\* search_embeddings without the test for an empty index
search_embeddings_no_empty_test(query_embedding, top_k) ==
    The({ IF f.raised
          THEN [raised |-> TRUE, results |-> <<>>]
          ELSE [raised |-> FALSE,
                results |-> CollectHits(f.hits, product_ids, Len(f.hits))] :
          f \in {faiss_search(index, query_embedding, top_k)} })

search_embeddings(query_embedding, top_k) ==
    IF Len(index) = 0
    THEN [raised |-> FALSE, results |-> <<>>]
    ELSE The({ IF f.raised
               THEN [raised |-> TRUE, results |-> <<>>]
               ELSE [raised |-> FALSE,
                     results |-> CollectHits(f.hits, product_ids, Len(f.hits))] :
               f \in {faiss_search(index, query_embedding, top_k)} })

(***************************************************************************)
(* Product store (models.py) and the search pipeline (search.py).          *)
(* A store row is [product_id, brand, color, size, price, rating,          *)
(* click_count, add_to_cart_count, purchase_count]; rows are kept in       *)
(* insertion (rowid) order, the order in which the queries return them.    *)
(* Ratings are in tenths.  Scores are exact fractions [n, d], d > 0, and   *)
(* round(x, 4) gives an integer number of ten-thousandths.                 *)
(***************************************************************************)
Frac(n, d) == [n |-> n, d |-> d]

FracLess(a, b) == a.n * b.d < b.n * a.d

\* round(x, 4), half to even
Round4(f) ==
    LET x == f.n * 10000
        q == IF x >= 0 THEN x \div f.d ELSE 0 - ((0 - x + f.d - 1) \div f.d)
        r == x - q * f.d
    IN  IF 2 * r > f.d \/ (2 * r = f.d /\ q % 2 # 0) THEN q + 1 ELSE q

min_max_norm(value, min_v, max_v) ==
    IF max_v = min_v THEN Frac(0, 1) ELSE Frac(value - min_v, max_v - min_v)

Max(a, b) == IF a >= b THEN a ELSE b

MinOf(S) == CHOOSE x \in S : \A y \in S : x <= y

MaxOf(S) == CHOOSE x \in S : \A y \in S : x >= y

get_min_max_counts ==
    LET clicks == {store[i].click_count : i \in DOMAIN store}
        carts  == {store[i].add_to_cart_count : i \in DOMAIN store}
        buys   == {store[i].purchase_count : i \in DOMAIN store}
    IN  [click_min |-> MinOf(clicks), click_max |-> MaxOf(clicks),
         cart_min  |-> MinOf(carts),  cart_max  |-> MaxOf(carts),
         buy_min   |-> MinOf(buys),   buy_max   |-> MaxOf(buys)]

\* the distinct brands of the store, lower-cased, in order of first occurrence
DistinctBrands ==
    LET first(i) == \A j \in 1..(i - 1) : store[j].brand # store[i].brand
        rows     == SelectSeq([i \in DOMAIN store |-> i], first)
    IN  [k \in DOMAIN rows |-> lower(store[rows[k]].brand)]

extract_brand(query) ==
    The({ LET hit(k) == brands[k] # <<>> /\ Contains(q, brands[k])
          IN  IF \E k \in DOMAIN brands : hit(k)
              THEN Some(brands[CHOOSE k \in DOMAIN brands :
                                  hit(k) /\ \A j \in 1..(k - 1) : ~hit(j)])
              ELSE None :
          brands \in {DistinctBrands}, q \in {lower(query)} })

\* SQL LIKE: % matches any run of characters, _ any one character
RECURSIVE LikeMatch(_, _)
LikeMatch(pat, str) ==
    IF pat = <<>> THEN str = <<>>
    ELSE IF pat[1] = "%"
    THEN LikeMatch(Tail(pat), str) \/ (str # <<>> /\ LikeMatch(pat, Tail(str)))
    ELSE /\ str # <<>>
         /\ (pat[1] = "_" \/ pat[1] = str[1])
         /\ LikeMatch(Tail(pat), Tail(str))

\* column.ilike(f"%{value}%")
ILikeContains(column, value) ==
    LikeMatch(<<"%">> \o lower(value) \o <<"%">>, lower(column))

\* distance_map: the last distance listed for each product id
DistanceMap(candidates) ==
    [pid \in {candidates[i].product_id : i \in DOMAIN candidates} |->
        candidates[CHOOSE i \in DOMAIN candidates :
                      /\ candidates[i].product_id = pid
                      /\ \A j \in (i + 1)..Len(candidates) :
                            candidates[j].product_id # pid].dist]

NoIntent ==
    [brand |-> None, color |-> None, size |-> None, rating |-> None,
     min_price |-> None, max_price |-> None]

\* the filtered query of semantic_search: q.all()
FilterProducts(ids, intent) ==
    LET keep(p) ==
            /\ p.product_id \in ids
            /\ intent.brand.some => ILikeContains(p.brand, intent.brand.v)
            /\ intent.color.some => ILikeContains(p.color, intent.color.v)
            /\ intent.size.some => p.size = intent.size.v
            /\ intent.min_price.some => p.price >= intent.min_price.v
            /\ intent.max_price.some => p.price <= intent.max_price.v
            /\ intent.rating.some => p.rating >= intent.rating.v
    IN  SelectSeq(store, keep)

\* 1 / (1 + distance); with the padding distance it is below 3e-39, which
\* every sum and every rounding of the pipeline takes to 0
semantic_score_of(distance) ==
    IF distance = FLT_MAX THEN Frac(0, 1) ELSE Frac(1, 1 + distance)

\* 0.55 * s + 0.20 * buy + 0.15 * cart + 0.10 * click - 0.10 * bounce
FinalScore(sem, click, cart, buy, bounce) ==
    LET rest == 20 * buy.n * cart.d * click.d
                + 15 * cart.n * buy.d * click.d
                + 10 * (click.n - bounce.n) * buy.d * cart.d
    IN  Frac(55 * sem.n * buy.d * cart.d * click.d + sem.d * rest,
             100 * sem.d * buy.d * cart.d * click.d)

\* one iteration of the scoring loop: (final_score, item)
ScoreProduct(p, distance_map, stats) ==
    LET semantic_score == semantic_score_of(distance_map[p.product_id])
        norm_click  == min_max_norm(p.click_count, stats.click_min, stats.click_max)
        norm_cart   == min_max_norm(p.add_to_cart_count, stats.cart_min, stats.cart_max)
        norm_buy    == min_max_norm(p.purchase_count, stats.buy_min, stats.buy_max)
        bounce      == Max(p.click_count - p.add_to_cart_count - p.purchase_count, 0)
        norm_bounce == min_max_norm(bounce, stats.click_min, stats.click_max)
        final_score == FinalScore(semantic_score, norm_click, norm_cart,
                                  norm_buy, norm_bounce)
    IN  [score |-> final_score,
         item  |-> [product        |-> p,
                    semantic_score |-> Round4(semantic_score),
                    norm_click     |-> Round4(norm_click),
                    norm_cart      |-> Round4(norm_cart),
                    norm_buy       |-> Round4(norm_buy),
                    norm_bounce    |-> Round4(norm_bounce),
                    final_score    |-> Round4(final_score)]]

\* the sort without reverse = True
SortAscending(ranked) ==
    LET n       == Len(ranked)
        before(i, j) == \/ FracLess(ranked[i].score, ranked[j].score)
                        \/ (~FracLess(ranked[j].score, ranked[i].score) /\ i < j)
        rank(i) == Cardinality({j \in 1..n : j # i /\ before(j, i)})
    IN  [r \in 1..n |-> ranked[CHOOSE i \in 1..n : rank(i) = r - 1]]

\* list.sort(key = score, reverse = True): stable, equal keys keep their order
SortDescending(ranked) ==
    LET n       == Len(ranked)
        before(i, j) == \/ FracLess(ranked[j].score, ranked[i].score)
                        \/ (~FracLess(ranked[i].score, ranked[j].score) /\ i < j)
        rank(i) == Cardinality({j \in 1..n : j # i /\ before(j, i)})
    IN  [r \in 1..n |-> ranked[CHOOSE i \in 1..n : rank(i) = r - 1]]

\* ranked_results[:top_k], top_k >= 0
Truncate(results, top_k) ==
    SubSeq(results, 1, IF top_k < Len(results) THEN top_k ELSE Len(results))

\* the extractors that read the query only
QueryIntent(query) ==
    [price  |-> extract_price_range(query),
     color  |-> extract_color(query),
     size   |-> extract_size(query),
     rating |-> extract_rating(query)]

(***************************************************************************)
(* Inputs: the catalogue that is ingested and the queries that are asked.  *)
(***************************************************************************)
Catalog ==
    << [product_id |-> "p1", brand |-> <<"a","_","b">>, color |-> <<"R","e","d">>,
        size |-> <<"X","L">>, price |-> 2500, rating |-> 45, emb |-> 0],
       [product_id |-> "p2", brand |-> <<"A","x","b">>, color |-> <<"d","a","r","k"," ","r","e","d">>,
        size |-> <<"x","l">>, price |-> 3500, rating |-> 40, emb |-> 1],
       [product_id |-> "p3", brand |-> <<"N","i","k","e">>, color |-> <<"b","l","u","e">>,
        size |-> <<"m">>, price |-> 0, rating |-> 38, emb |-> 2] >>

\* "red shoes under 3000 with 4 star rating"
Q_red    == <<"r","e","d"," ","s","h","o","e","s"," ","u","n","d","e","r"," ","3","0","0","0"," ","w","i","t","h"," ","4"," ","s","t","a","r"," ","r","a","t","i","n","g">>

\* "between 2k and 6k"
Q_range  == <<"b","e","t","w","e","e","n"," ","2","k"," ","a","n","d"," ","6","k">>

\* "a_b shoes"
Q_brand  == <<"a","_","b"," ","s","h","o","e","s">>

\* "shoes size XL"
Q_size   == <<"s","h","o","e","s"," ","s","i","z","e"," ","X","L">>

\* "above 4.5 rating"
Q_rating == <<"a","b","o","v","e"," ","4",".","5"," ","r","a","t","i","n","g">>

\* "shoes"
Q_plain  == <<"s","h","o","e","s">>

\* "under 0"
Q_zero   == <<"u","n","d","e","r"," ","0">>

\* "nike red"
Q_none   == <<"n","i","k","e"," ","r","e","d">>

Queries == {Q_red, Q_range, Q_brand, Q_size, Q_rating, Q_plain, Q_zero, Q_none}

\* the extractors are pure functions of the query: their values on the
\* queries that are asked, computed once
QueryIntents == [q \in Queries |-> QueryIntent(q)]

QueryIntentOf(query) ==
    IF query \in Queries THEN QueryIntents[query] ELSE QueryIntent(query)

\* the over-fetch factor of semantic_search
OVERFETCH == 5

\* an embedding with one free coordinate
Embedding(a) == [i \in 1..EMBEDDING_DIM |-> IF i = 1 THEN a ELSE 0]

\* model.encode(text): an opaque, fixed function of the text
encode(text) == Embedding(Len(text) % 3)

extract_intent(query) ==
    LET e == QueryIntentOf(query)
    IN  [raised |-> e.price.raised,
         intent |-> [brand     |-> extract_brand(query),
                     color     |-> e.color,
                     size      |-> e.size,
                     rating    |-> e.rating,
                     min_price |-> e.price.min,
                     max_price |-> e.price.max]]

Outcome(status, out, stages, candidates, intent) ==
    [status |-> status, out |-> out, stages |-> stages,
     candidates |-> candidates, intent |-> intent]

\* semantic_search(db, query, top_k): the response, or the exception, and the
\* pipeline stages that ran
semantic_search(query, top_k) ==
    LET query_embedding == encode(query)
        FAISS_K == top_k * OVERFETCH
        stats   == get_min_max_counts
        s2      == <<"encode", "search_embeddings">>
        s3      == Append(s2, "extract_intent")
        s4      == Append(s3, "query_products")
        s5      == s4 \o <<"get_min_max_counts", "score", "sort">>
    IN  The({
          IF found.raised
          THEN Outcome("raised", <<>>, s2, <<>>, NoIntent)
          ELSE IF found.results = <<>>
          THEN Outcome("ok", <<>>, s2, found.results, NoIntent)
          ELSE The({
            IF ex.raised
            THEN Outcome("raised", <<>>, s3, found.results, NoIntent)
            ELSE The({
              IF products = <<>>
              THEN Outcome("ok", <<>>, s4, found.results, ex.intent)
              ELSE The({
                LET top == Truncate(SortDescending(ranked), top_k)
                IN  Outcome("ok", [i \in DOMAIN top |-> top[i].item], s5,
                            found.results, ex.intent) :
                ranked \in {[i \in DOMAIN products |->
                                ScoreProduct(products[i], distance_map, stats)]} }) :
              products \in {FilterProducts(DOMAIN distance_map, ex.intent)} }) :
            distance_map \in {DistanceMap(found.results)},
            ex \in {extract_intent(query)} }) :
          found \in {search_embeddings(query_embedding, FAISS_K)} })

(***************************************************************************)
(* Ingestion (ingest.py) and the committed effect of one consumed event    *)
(* (event_consumer.py).                                                    *)
(***************************************************************************)
NewProduct(row) ==
    [product_id |-> row.product_id, brand |-> row.brand, color |-> row.color,
     size |-> row.size, price |-> row.price, rating |-> row.rating,
     click_count |-> 0, add_to_cart_count |-> 0, purchase_count |-> 0]

\* the loop of ingest_csv over the rows of one chunk: st is [existing_ids,
\* products_to_add, index, product_ids]
RECURSIVE IngestRows(_, _, _)
IngestRows(rows, n, st0) ==
    IF n = 0 THEN st0
    ELSE LET st  == IngestRows(rows, n - 1, st0)
             row == rows[n]
             a   == faiss_add(st.index, Embedding(row.emb))
         IN  IF row.product_id \in st.existing_ids
             THEN st
             ELSE [existing_ids    |-> st.existing_ids \cup {row.product_id},
                   products_to_add |-> Append(st.products_to_add, NewProduct(row)),
                   index           |-> a.index,
                   product_ids     |-> Append(st.product_ids, row.product_id)]

\* ingest_csv without the ids fetched from the store
ingest_csv_no_fetch(rows) ==
    IngestRows(rows, Len(rows),
               [existing_ids    |-> {},
                products_to_add |-> <<>>,
                index           |-> index,
                product_ids     |-> product_ids])

\* ingest_csv(file, db) for a file of one chunk (at most batch_size rows)
ingest_csv(rows) ==
    IngestRows(rows, Len(rows),
               [existing_ids    |-> {store[i].product_id : i \in DOMAIN store},
                products_to_add |-> <<>>,
                index           |-> index,
                product_ids     |-> product_ids])

EventTypes == {"click", "add_to_cart", "purchase"}

\* the counter update of the consumer loop for one event
ApplyEvent(db, product_id, event_type) ==
    [i \in DOMAIN db |->
        IF db[i].product_id # product_id THEN db[i]
        ELSE IF event_type = "click"
        THEN [db[i] EXCEPT !.click_count = db[i].click_count + 1]
        ELSE IF event_type = "add_to_cart"
        THEN [db[i] EXCEPT !.add_to_cart_count = db[i].add_to_cart_count + 1]
        ELSE IF event_type = "purchase"
        THEN [db[i] EXCEPT !.purchase_count = db[i].purchase_count + 1]
        ELSE db[i]]

MaxTopK == 2

MaxEvents == 4

TotalEvents ==
    LET RECURSIVE Sum(_)
        Sum(n) == IF n = 0 THEN 0
                  ELSE Sum(n - 1) + store[n].click_count
                       + store[n].add_to_cart_count + store[n].purchase_count
    IN  Sum(Len(store))

Idle == [op |-> "none"]

Writers == {"w1", "w2"}

Searchers == {"s1"}

Threads == Writers \cup Searchers

IdleThread ==
    [pc |-> "idle", product_id |-> "", embedding |-> <<>>, top_k |-> 0,
     hits |-> <<>>, results |-> <<>>]

\* the stream before any XADD: no entry, nothing delivered to the group,
\* nothing pending
EmptyStream == [stream |-> <<>>, last_delivered |-> 0, pending |-> {}]

\* the consumer process at the top of its loop, just started; session is the
\* products as its database session holds them
StartedConsumer(restarts) ==
    [pc |-> "read", messages |-> <<>>, session |-> <<>>, restarts |-> restarts]

(***************************************************************************)
(* The sequential system: ingestion, committed events, searches.           *)
(***************************************************************************)
Init ==
    /\ index = <<>>
    /\ product_ids = <<>>
    /\ store = <<>>
    /\ result = Idle
    /\ history = <<>>
    /\ th = [t \in Threads |-> IdleThread]
    /\ redis = EmptyStream
    /\ consumer = StartedConsumer(0)

\* POST /ingest with a one-row file: the next product of the catalogue
Ingest ==
    /\ Len(store) < Len(Catalog)
    /\ LET st == ingest_csv(<<Catalog[Len(store) + 1]>>)
       IN  /\ index' = st.index
           /\ product_ids' = st.product_ids
           /\ store' = store \o st.products_to_add
           /\ history' = history \o
                 [i \in 1..Len(st.products_to_add) |->
                     [product_id |-> st.products_to_add[i].product_id,
                      embedding  |-> st.index[Len(index) + i]]]
    /\ result' = Idle
    /\ UNCHANGED <<th, redis, consumer>>

\* the consumer commits one click, add_to_cart or purchase event
ConsumeEvent ==
    /\ TotalEvents < MaxEvents
    /\ \E i \in DOMAIN store, e \in EventTypes :
          store' = ApplyEvent(store, store[i].product_id, e)
    /\ result' = Idle
    /\ UNCHANGED <<index, product_ids, history, th, redis, consumer>>

\* GET /search, one request at a time: the response is held in `result`
\* until the next ingestion or event
Search ==
    /\ result = Idle
    /\ \E q \in Queries, k \in 0..MaxTopK :
          result' = [op |-> "semantic_search", query |-> q, top_k |-> k,
                     r |-> semantic_search(q, k)]
    /\ UNCHANGED <<index, product_ids, store, history, th, redis, consumer>>

Next == Ingest \/ ConsumeEvent \/ Search

Spec == Init /\ [][Next]_vars

(***************************************************************************)
(* The vector store on its own: sequential add_embedding and               *)
(* search_embeddings calls with arbitrary ids, vectors and k.              *)
(***************************************************************************)
MaxIndex == 3

MaxCoord == 1

MaxK == 4

IndexIds == {"p1", "p2"}

\* vectors of the configured dimension, and one too short and one too long
GoodEmbeddings == {Embedding(a) : a \in 0..MaxCoord}

BadEmbeddings ==
    {[i \in 1..(EMBEDDING_DIM - 1) |-> 0], [i \in 1..(EMBEDDING_DIM + 1) |-> 0]}

AddEmbedding ==
    /\ Len(index) < MaxIndex
    /\ \E pid \in IndexIds, e \in GoodEmbeddings \cup BadEmbeddings :
          LET a == add_embedding(pid, e)
          IN  /\ index' = a.index
              /\ product_ids' = a.product_ids
              /\ history' = IF a.raised THEN history
                            ELSE Append(history, [product_id |-> pid, embedding |-> e])
              /\ result' = [op |-> "add_embedding", product_id |-> pid,
                            embedding |-> e, raised |-> a.raised]
    /\ UNCHANGED <<store, th, redis, consumer>>

\* one search after each add: a search changes neither the index nor
\* product_ids, so a second search in a row answers as the first one would
SearchEmbeddings ==
    /\ result.op # "search_embeddings"
    /\ \E q \in GoodEmbeddings, k \in 0..MaxK :
          LET f == search_embeddings(q, k)
          IN  result' = [op |-> "search_embeddings", query_embedding |-> q,
                         top_k |-> k, raised |-> f.raised, results |-> f.results]
    /\ UNCHANGED <<index, product_ids, store, history, th, redis, consumer>>

NextIndex == AddEmbedding \/ SearchEmbeddings

SpecIndex == Init /\ [][NextIndex]_vars

Min(a, b) == IF a <= b THEN a ELSE b

\* C2: on an index of n >= 1 vectors search_embeddings(q, k) returns exactly
\* min(k, n) pairs, each the id and the true squared distance of a distinct
\* position, in ascending distance order
C2_SearchReturnsAvailable ==
    ( /\ result.op = "search_embeddings"
      /\ ~result.raised
      /\ Len(index) >= 1 ) =>
        LET res == result.results
            n   == Len(index)
        IN  /\ Len(res) = Min(result.top_k, n)
            /\ \E f \in [DOMAIN res -> 1..n] :
                  /\ \A i, j \in DOMAIN res : i # j => f[i] # f[j]
                  /\ \A i \in DOMAIN res :
                        /\ res[i].product_id = product_ids[f[i]]
                        /\ res[i].dist = L2(result.query_embedding, index[f[i]])
            /\ \A i, j \in DOMAIN res : i < j => res[i].dist <= res[j].dist

\* C3: the index and product_ids hold exactly the accepted adds, in order:
\* equal lengths, position i carries the id and the vector of the i-th
\* accepted add, and a rejected add changes neither
C3_AppendOnlyMapping ==
    /\ Len(index) = Len(product_ids)
    /\ Len(product_ids) = Len(history)
    /\ \A i \in DOMAIN history :
          /\ product_ids[i] = history[i].product_id
          /\ index[i] = history[i].embedding
          /\ Len(index[i]) = EMBEDDING_DIM

\* C3 witness: an add was rejected for its dimension after two were accepted
C3_Witness ==
    /\ result.op = "add_embedding"
    /\ result.raised
    /\ Len(result.embedding) # EMBEDDING_DIM
    /\ Len(product_ids) = 2
    /\ product_ids[1] # product_ids[2]


(***************************************************************************)
(* Concurrent requests (the endpoints of main.py run in a thread pool):    *)
(* two threads inside add_embedding and one inside search_embeddings, one  *)
(* statement at a time.  Each FAISS call is taken as atomic, the outcome   *)
(* most favourable to the code.                                            *)
(***************************************************************************)
\* the k of the concurrent search: with k = 1 FAISS never pads
ConcTopK == 1

\* vector_store.py line 23-24: vector = np.array(...); index.add(vector)
W_IndexAdd(t) ==
    /\ th[t].pc = "idle"
    /\ Len(index) < MaxIndex
    /\ \E e \in GoodEmbeddings :
          LET a == faiss_add(index, e)
          IN  /\ index' = a.index
              /\ history' = Append(history, [product_id |-> t, embedding |-> e])
              /\ th' = [th EXCEPT ![t] = [IdleThread EXCEPT !.pc = "append",
                                                           !.product_id = t,
                                                           !.embedding = e]]
    /\ UNCHANGED <<product_ids, store, result, redis, consumer>>

\* line 25: product_ids.append(product_id)
W_Append(t) ==
    /\ th[t].pc = "append"
    /\ product_ids' = Append(product_ids, th[t].product_id)
    /\ th' = [th EXCEPT ![t] = IdleThread]
    /\ UNCHANGED <<index, store, result, history, redis, consumer>>

\* lines 33-34: if index.ntotal == 0: return []
S_Begin(t) ==
    /\ th[t].pc = "idle"
    /\ \E q \in GoodEmbeddings, k \in 1..ConcTopK :
          /\ th' = [th EXCEPT ![t] = [IdleThread EXCEPT
                        !.pc = IF Len(index) = 0 THEN "idle" ELSE "search",
                        !.embedding = q, !.top_k = k]]
          /\ result' = IF Len(index) = 0
                       THEN [op |-> "search_embeddings", query_embedding |-> q,
                             top_k |-> k, raised |-> FALSE, results |-> <<>>]
                       ELSE result
    /\ UNCHANGED <<index, product_ids, store, history, redis, consumer>>

\* lines 36-37: distances, indices = index.search(vector, top_k)
S_Search(t) ==
    /\ th[t].pc = "search"
    /\ th' = [th EXCEPT ![t].pc = "collect",
                        ![t].hits = faiss_search(index, th[t].embedding, th[t].top_k).hits]
    /\ UNCHANGED <<index, product_ids, store, result, history, redis, consumer>>

\* lines 40-42: one iteration of the loop over the hits
S_Collect(t) ==
    /\ th[t].pc = "collect"
    /\ th[t].hits # <<>>
    /\ LET h == Head(th[t].hits)
       IN  th' = [th EXCEPT
                    ![t].hits = Tail(th[t].hits),
                    ![t].results =
                        IF h.idx < Len(product_ids)
                        THEN Append(th[t].results,
                                    [product_id |-> PyIndex(product_ids, h.idx),
                                     dist       |-> h.dist])
                        ELSE th[t].results]
    /\ UNCHANGED <<index, product_ids, store, result, history, redis, consumer>>

\* line 43: return results
S_Return(t) ==
    /\ th[t].pc = "collect"
    /\ th[t].hits = <<>>
    /\ result' = [op |-> "search_embeddings", query_embedding |-> th[t].embedding,
                  top_k |-> th[t].top_k, raised |-> FALSE,
                  results |-> th[t].results]
    /\ th' = [th EXCEPT ![t] = IdleThread]
    /\ UNCHANGED <<index, product_ids, store, history, redis, consumer>>

NextConc ==
    \/ \E t \in Writers : W_IndexAdd(t) \/ W_Append(t)
    \/ \E t \in Searchers : S_Begin(t) \/ S_Search(t) \/ S_Collect(t) \/ S_Return(t)

SpecConc == Init /\ [][NextConc]_vars

\* C4: concurrent adds and searches do not corrupt the mapping: when no add
\* is in progress every position carries the id passed with its vector, and
\* every pair a search returns is an id with the distance of a vector that
\* was added under that id
C4_MappingNotCorrupted ==
    /\ (\A w \in Writers : th[w].pc = "idle") =>
          /\ Len(product_ids) = Len(history)
          /\ \A p \in DOMAIN history : product_ids[p] = history[p].product_id
    /\ result.op = "search_embeddings" =>
          \A i \in DOMAIN result.results :
              \E p \in DOMAIN history :
                  /\ history[p].product_id = result.results[i].product_id
                  /\ L2(result.query_embedding, history[p].embedding)
                        = result.results[i].dist


(***************************************************************************)
(* The price extractor on its own.  A query is built from a phrase kind,   *)
(* a keyword and numeric tokens, and extract_price_range is applied to it. *)
(***************************************************************************)
\* "3000", "0", "007", "2k", "6k", "2.5k", "5K", "2.01k", "2.5", "5."
NumberTokens ==
    {<<"3","0","0","0">>, <<"0">>, <<"0","0","7">>, <<"2","k">>, <<"6","k">>, <<"2",".","5","k">>, <<"5","K">>, <<"2",".","0","1","k">>, <<"2",".","5">>, <<"5",".">>}

Sp == <<" ">>

BetweenPhrase(a, b) == W_between \o Sp \o a \o Sp \o W_and \o Sp \o b

\* the queries of each kind, with the phrase whose bounds the priority order
\* selects: [kind, query, lo, hi], lo and hi the tokens as written
PriceInputs ==
    {[kind |-> "between", query |-> <<"s","h","o","e","s"," ">> \o BetweenPhrase(a, b),
      lo |-> Some(a), hi |-> Some(b)] : a, b \in NumberTokens}
    \cup
    {[kind |-> "under", query |-> kw \o Sp \o a, lo |-> None, hi |-> Some(a)] :
        kw \in KwUnder, a \in NumberTokens}
    \cup
    {[kind |-> "above", query |-> kw \o Sp \o a, lo |-> Some(a), hi |-> None] :
        kw \in KwAbove, a \in NumberTokens}
    \cup
    {[kind |-> "under before between",
      query |-> <<"u","n","d","e","r"," ">> \o b \o Sp \o BetweenPhrase(a, <<"6","k">>),
      lo |-> Some(a), hi |-> Some(<<"6","k">>)] : a, b \in {<<"2","k">>, <<"3","0","0","0">>}}
    \cup
    {[kind |-> "above before under",
      query |-> <<"o","v","e","r"," ">> \o a \o <<" ","a","n","d"," ","b","e","l","o","w"," ">> \o b,
      lo |-> None, hi |-> Some(b)] : a, b \in {<<"2","k">>, <<"3","0","0","0">>}}
    \cup
    {[kind |-> "none", query |-> q, lo |-> None, hi |-> None] :
        q \in {<<"s","h","o","e","s">>, <<"b","e","t","w","e","e","n"," ","2","k">>, <<"u","n","d","e","r">>, <<"3","0","0","0">>, <<"u","n","d","e","r","n","e","a","t","h"," ","5"," ","l","a","y","e","r","s">>}}

\* one call of extract_price_range per run
ExtractPrice ==
    /\ result = Idle
    /\ \E in \in PriceInputs :
          result' = [op |-> "extract_price_range", input |-> in,
                     price |-> extract_price_range(in.query)]
    /\ UNCHANGED <<index, product_ids, store, history, th, redis, consumer>>

SpecExtract == Init /\ [][ExtractPrice]_vars

\* the number a token denotes: [n, d] = n / d; with the suffix k, the value
\* times 1000 truncated to an integer
TokenValue(tok) ==
    LET tk   == lower(tok)
        k    == tk[Len(tk)] = "k"
        body == IF k THEN SubSeq(tk, 1, Len(tk) - 1) ELSE tk
        dot  == IF \E i \in 1..Len(body) : body[i] = "."
                THEN CHOOSE i \in 1..Len(body) : body[i] = "." ELSE Len(body) + 1
        fp   == SubSeq(body, dot + 1, Len(body))
        n    == DecValue(SubSeq(body, 1, dot - 1) \o fp)
        d    == Pow(10, Len(fp))
    IN  IF k THEN Frac((n * 1000) \div d, 1) ELSE Frac(n, d)

BoundIs(bound, tok) ==
    IF tok.some
    THEN bound.some /\ bound.v * TokenValue(tok.v).d = TokenValue(tok.v).n
    ELSE bound = None

\* C9: the first matching pattern in the order between, under, above decides
\* the bounds, each bound is the number its token denotes, a k suffix meaning
\* times 1000 truncated; no match gives no bounds
C9_PricePriority ==
    result.op = "extract_price_range" =>
        /\ ~result.price.raised
        /\ BoundIs(result.price.min, result.input.lo)
        /\ BoundIs(result.price.max, result.input.hi)


(***************************************************************************)
(* Properties of the search pipeline, checked under Spec.                  *)
(***************************************************************************)
Searched == result.op = "semantic_search"

Returned == Searched /\ result.r.status = "ok"

CandidateIds == {result.r.candidates[i].product_id : i \in DOMAIN result.r.candidates}

\* C1: a search returns at most top_k results, in non-increasing order of
\* final_score
C1_TopKSorted ==
    Returned =>
        /\ Len(result.r.out) <= result.top_k
        /\ \A i, j \in DOMAIN result.r.out :
              i < j => result.r.out[i].final_score >= result.r.out[j].final_score

\* C1 witness: three products are candidates, top_k = 2 cuts the list, and the
\* sort has put a later product of the store first
C1_Witness ==
    /\ Returned
    /\ result.top_k = 2
    /\ Len(result.r.out) = 2
    /\ Cardinality(CandidateIds) = 3
    /\ Len(FilterProducts(CandidateIds, result.r.intent)) = 3
    /\ result.r.out[1].product.product_id # "p1"
    /\ result.r.out[1].final_score > result.r.out[2].final_score

\* C5: every returned product is a candidate of the vector index and meets
\* every constraint of the extracted intent: brand and color as
\* case-insensitive substrings, size by equality, price and rating by bounds
C5_FilterConjunction ==
    Returned =>
        \A i \in DOMAIN result.r.out :
            LET p  == result.r.out[i].product
                it == result.r.intent
            IN  /\ p.product_id \in CandidateIds
                /\ it.brand.some => Contains(lower(p.brand), lower(it.brand.v))
                /\ it.color.some => Contains(lower(p.color), lower(it.color.v))
                /\ it.size.some => p.size = it.size.v
                /\ it.min_price.some => it.min_price.v <= p.price
                /\ it.max_price.some => p.price <= it.max_price.v
                /\ it.rating.some => p.rating >= it.rating.v

\* C6: each normalized signal of each result lies in [0, 1], and is 0 when
\* the population minimum equals the maximum of the counter range used
C6_NormalizedInUnitRange ==
    Returned =>
        \A i \in DOMAIN result.r.out :
            LET r  == result.r.out[i]
                st == get_min_max_counts
            IN  /\ \A v \in {r.norm_click, r.norm_cart, r.norm_buy, r.norm_bounce} :
                      0 <= v /\ v <= 10000
                /\ st.click_min = st.click_max => r.norm_click = 0 /\ r.norm_bounce = 0
                /\ st.cart_min = st.cart_max => r.norm_cart = 0
                /\ st.buy_min = st.buy_max => r.norm_buy = 0

\* C7: with an empty index, or when no candidate passes the filter, the
\* search returns the empty list without error and the later stages do not
\* run
C7_EmptyIsTerminal ==
    Searched =>
        /\ Len(index) = 0 =>
              /\ result.r.status = "ok"
              /\ result.r.out = <<>>
              /\ result.r.stages = <<"encode", "search_embeddings">>
        /\ ( /\ "query_products" \in Range(result.r.stages)
             /\ FilterProducts(CandidateIds, result.r.intent) = <<>> ) =>
              /\ result.r.status = "ok"
              /\ result.r.out = <<>>
              /\ "get_min_max_counts" \notin Range(result.r.stages)
              /\ "score" \notin Range(result.r.stages)

\* C7 witness: candidates were retrieved and the filter left none of them
C7_Witness ==
    /\ Returned
    /\ result.r.candidates # <<>>
    /\ "query_products" \in Range(result.r.stages)
    /\ FilterProducts(CandidateIds, result.r.intent) = <<>>
    /\ result.r.out = <<>>

\* C8: a numeric token the extractor cannot parse does not make the search
\* raise; that constraint is absent, the other extractors' values stand and
\* the filter runs
C8_MalformedTokenRecovered ==
    ( /\ Searched
      /\ result.r.candidates # <<>>
      /\ extract_price_range(result.query).raised ) =>
        /\ result.r.status = "ok"
        /\ "query_products" \in Range(result.r.stages)
        /\ result.r.intent.min_price = None
        /\ result.r.intent.max_price = None
        /\ result.r.intent.color = extract_color(result.query)
        /\ result.r.intent.size = extract_size(result.query)
        /\ result.r.intent.rating = extract_rating(result.query)

\* the token after "size" as the query spells it: the characters of the
\* query at the place where size\s*(\w+) matches its lower-cased form
SizeTokenAsWritten(query) ==
    LET q      == lower(query)
        starts == {i \in 1..Len(q) : SizeAt(q, i).ok}
        i0     == CHOOSE i \in starts : \A j \in starts : i <= j
        b      == SkipSpaces(q, i0 + Len(W_size))
    IN  IF starts = {} THEN None
        ELSE Some(SubSeq(query, b, SkipWord(q, b) - 1))

\* C10: the extracted size is the token after "size" as written in the
\* query, and the filter keeps exactly the candidates whose size equals it
C10_SizeVerbatim ==
    ( Searched /\ "query_products" \in Range(result.r.stages) ) =>
        LET tok == SizeTokenAsWritten(result.query)
        IN  /\ result.r.intent.size = tok
            /\ FilterProducts(CandidateIds, result.r.intent)
                  = FilterProducts(CandidateIds, [result.r.intent EXCEPT !.size = tok])

\* the squared L2 distance between the query's embedding and the vector
\* indexed for a product
DistanceOf(query, product_id) ==
    L2(encode(query),
       index[CHOOSE p \in DOMAIN product_ids : product_ids[p] = product_id])

\* every product of the store has the same click, cart and purchase counts
EqualCounts ==
    \A i, j \in DOMAIN store :
        /\ store[i].click_count = store[j].click_count
        /\ store[i].add_to_cart_count = store[j].add_to_cart_count
        /\ store[i].purchase_count = store[j].purchase_count

\* C11: with equal counts on every product the four normalized signals of
\* every result are 0 and the order is the semantic order: a result nearer
\* to the query has the greater semantic_score and final_score and comes
\* first; distance 0 gives semantic_score 1.0 and distance 1 gives 0.5
C11_SemanticOrder ==
    ( Returned /\ EqualCounts ) =>
        LET out  == result.r.out
            d(i) == DistanceOf(result.query, out[i].product.product_id)
        IN  /\ \A i \in DOMAIN out :
                  /\ out[i].norm_click = 0 /\ out[i].norm_cart = 0
                  /\ out[i].norm_buy = 0 /\ out[i].norm_bounce = 0
                  /\ d(i) = 0 => out[i].semantic_score = 10000
                  /\ d(i) = 1 => out[i].semantic_score = 5000
            /\ \A i, j \in DOMAIN out :
                  d(i) < d(j) =>
                      /\ out[i].semantic_score > out[j].semantic_score
                      /\ out[i].final_score > out[j].final_score
                      /\ i < j


(***************************************************************************)
(* Event tracking: POST /event appends to the Redis stream user_events     *)
(* (main.py), and the consumer process reads the stream through the group  *)
(* analytics_group, updates the counters in its database session,          *)
(* acknowledges each message and commits once per batch                    *)
(* (event_consumer.py).  A stream entry is named by its position; the      *)
(* group has delivered the entries up to last_delivered, and pending holds *)
(* the delivered entries not yet acknowledged.                             *)
(***************************************************************************)
\* the most entries the stream receives
MaxStream == 3

\* the count of one XREADGROUP
ReadCount == 2

\* the most times the consumer process is stopped and started again
MaxRestarts == 1

\* the event types a client sends: the three tracked ones and another one
RequestTypes == EventTypes \cup {"search"}

\* the product ids a client sends: two ingested, one unknown, and none
RequestProducts == {"p1", "p2", "p9", ""}

\* track_event(event): the response and the stream after it
track_event(event_type, product_id) ==
    IF event_type \in EventTypes /\ product_id = ""
    THEN [error |-> TRUE, stream |-> redis.stream]
    ELSE [error |-> FALSE,
          stream |-> Append(redis.stream,
                            [event_type |-> event_type, product_id |-> product_id])]

\* r.xack(STREAM, GROUP, msg_id)
xack(pending, msg_id) == pending \ {msg_id}

\* the state after the first two products of the catalogue were ingested
InitEvents ==
    /\ store = [i \in 1..2 |-> NewProduct(Catalog[i])]
    /\ index = [i \in 1..2 |-> Embedding(Catalog[i].emb)]
    /\ product_ids = [i \in 1..2 |-> Catalog[i].product_id]
    /\ history = [i \in 1..2 |-> [product_id |-> Catalog[i].product_id,
                                   embedding  |-> Embedding(Catalog[i].emb)]]
    /\ result = Idle
    /\ th = [t \in Threads |-> IdleThread]
    /\ redis = EmptyStream
    /\ consumer = StartedConsumer(0)

\* POST /event
TrackEvent ==
    /\ Len(redis.stream) < MaxStream
    /\ \E e \in RequestTypes, pid \in RequestProducts :
          LET t == track_event(e, pid)
          IN  /\ redis' = [redis EXCEPT !.stream = t.stream]
              /\ result' = [op |-> "track_event", error |-> t.error]
    /\ UNCHANGED <<index, product_ids, store, history, th, consumer>>

\* lines 42-53: XREADGROUP with id ">" delivers up to count entries never
\* delivered before and records them as pending; an empty read loops; then
\* a database session is opened
C_Read ==
    /\ consumer.pc = "read"
    /\ redis.last_delivered < Len(redis.stream)
    /\ LET last == Min(redis.last_delivered + ReadCount, Len(redis.stream))
           ids  == [k \in 1..(last - redis.last_delivered) |->
                       redis.last_delivered + k]
       IN  /\ redis' = [redis EXCEPT !.last_delivered = last,
                                     !.pending = redis.pending \cup Range(ids)]
           /\ consumer' = [consumer EXCEPT !.pc = "process", !.messages = ids,
                                           !.session = store]
    /\ UNCHANGED <<index, product_ids, store, result, history, th>>

\* lines 56-78: one message of the batch: counter update in the session,
\* then XACK
C_Process ==
    /\ consumer.pc = "process"
    /\ consumer.messages # <<>>
    /\ LET msg_id == Head(consumer.messages)
           data   == redis.stream[msg_id]
           known  == \E i \in DOMAIN consumer.session :
                        consumer.session[i].product_id = data.product_id
       IN  /\ consumer' = [consumer EXCEPT
                 !.messages = Tail(consumer.messages),
                 !.session  = IF data.product_id = "" \/ ~known
                              THEN consumer.session
                              ELSE ApplyEvent(consumer.session, data.product_id,
                                              data.event_type)]
           /\ redis' = [redis EXCEPT !.pending = xack(redis.pending, msg_id)]
    /\ UNCHANGED <<index, product_ids, store, result, history, th>>

\* lines 80-81: db.commit() after the batch; nothing else writes the
\* counters, so the committed rows become the rows of the session
C_Commit ==
    /\ consumer.pc = "process"
    /\ consumer.messages = <<>>
    /\ store' = consumer.session
    /\ consumer' = [consumer EXCEPT !.pc = "read", !.session = <<>>]
    /\ UNCHANGED <<index, product_ids, result, history, th, redis>>

\* the process stops at any point of the loop and is started again: the
\* session is gone, the group exists already (lines 35-38) and keeps its
\* last delivered id and its pending entries
C_Restart ==
    /\ consumer.restarts < MaxRestarts
    /\ consumer' = StartedConsumer(consumer.restarts + 1)
    /\ UNCHANGED <<index, product_ids, store, result, history, th, redis>>

NextEvents == TrackEvent \/ C_Read \/ C_Process \/ C_Commit \/ C_Restart

SpecEvents == InitEvents /\ [][NextEvents]_vars

\* the number of entries of the stream for a product and an event type
Appended(product_id, event_type) ==
    Cardinality({i \in DOMAIN redis.stream :
                    redis.stream[i] = [event_type |-> event_type,
                                       product_id |-> product_id]})

\* the consumer is at the top of its loop and the group has delivered
\* every entry: no later step applies an entry of the stream
Consumed ==
    /\ consumer.pc = "read"
    /\ redis.last_delivered = Len(redis.stream)

\* C12: no event is applied twice, and once the consumer has consumed the
\* stream every event for a known product is applied: each counter of each
\* product equals the number of its events of that type, and every entry
\* is acknowledged
C12_EventsAppliedOnce ==
    /\ \A i \in DOMAIN store :
          /\ store[i].click_count <= Appended(store[i].product_id, "click")
          /\ store[i].add_to_cart_count <= Appended(store[i].product_id, "add_to_cart")
          /\ store[i].purchase_count <= Appended(store[i].product_id, "purchase")
    /\ Consumed =>
          /\ redis.pending = {}
          /\ \A i \in DOMAIN store :
                /\ store[i].click_count = Appended(store[i].product_id, "click")
                /\ store[i].add_to_cart_count = Appended(store[i].product_id, "add_to_cart")
                /\ store[i].purchase_count = Appended(store[i].product_id, "purchase")


(***************************************************************************)
(* Ingestion on its own: sequential POST /ingest calls, each committed,    *)
(* with files whose rows repeat product ids inside a file and across       *)
(* files.                                                                  *)
(***************************************************************************)
\* the most rows of one file
MaxRows == 2

\* the rows a file is made of: the catalogue, and a second row for p1 with
\* other data
FileRows ==
    Range(Catalog) \cup
    {[product_id |-> "p1", brand |-> <<"N","i","k","e">>, color |-> <<"b","l","u","e">>,
      size |-> <<"m">>, price |-> 10, rating |-> 10, emb |-> 1]}

Files == UNION {[1..n -> FileRows] : n \in 1..MaxRows}

\* POST /ingest: one ingest_csv call, with what the store and the mapping
\* held before it
IngestFile ==
    /\ \E rows \in Files :
          LET st == ingest_csv(rows)
          IN  /\ index' = st.index
              /\ product_ids' = st.product_ids
              /\ store' = store \o st.products_to_add
              /\ history' = history \o
                    [i \in 1..Len(st.products_to_add) |->
                        [product_id |-> st.products_to_add[i].product_id,
                         embedding  |-> st.index[Len(index) + i]]]
              /\ result' = [op |-> "ingest_csv", rows |-> rows,
                            store_before |-> store,
                            product_ids_before |-> product_ids]
    /\ UNCHANGED <<th, redis, consumer>>

SpecIngest == Init /\ [][IngestFile]_vars

\* a sequence without repeated elements
NoRepeat(seq) == \A i, j \in DOMAIN seq : i # j => seq[i] # seq[j]

StoreIds(db) == [i \in DOMAIN db |-> db[i].product_id]

\* C13: after committed ingest_csv calls every product id is once in the
\* store and once in the index mapping, both hold the same ids, and a call
\* appends to both exactly the ids of its file that were not known, each
\* once, in order of first occurrence, its first row's data being kept
C13_IngestOnce ==
    /\ NoRepeat(StoreIds(store))
    /\ NoRepeat(product_ids)
    /\ Range(StoreIds(store)) = Range(product_ids)
    /\ Len(index) = Len(product_ids)
    /\ result.op = "ingest_csv" =>
          LET rows   == result.rows
              known  == Range(StoreIds(result.store_before))
              new(k) == /\ rows[k].product_id \notin known
                        /\ \A j \in 1..(k - 1) :
                              rows[j].product_id # rows[k].product_id
              added  == SelectSeq([k \in DOMAIN rows |-> k], new)
          IN  /\ store = result.store_before \o
                            [a \in DOMAIN added |-> NewProduct(rows[added[a]])]
              /\ product_ids = result.product_ids_before \o
                            [a \in DOMAIN added |-> rows[added[a]].product_id]

\* C13 witness: a file repeated a new id with other data in its second row,
\* and named an id ingested by an earlier file
C13_Witness ==
    /\ result.op = "ingest_csv"
    /\ Len(result.rows) = 2
    /\ result.rows[1].product_id = result.rows[2].product_id
    /\ result.rows[1] # result.rows[2]
    /\ result.store_before # <<>>
    /\ Len(store) = Len(result.store_before) + 1

=============================================================================
